---- MODULE Spec2Model ----
(***************************************************************************)
(* Go Brew: the timer state machine of the Bubbletea program (model.go,    *)
(* update code in main.go, configuration in config.go).                    *)
(*                                                                         *)
(* Durations are integers counted in a fixed fraction of a second          *)
(* (UnitsPerSecond units make one second), so that a duration that is not  *)
(* a whole number of seconds can be written.  A tea.Tick command that has  *)
(* been returned by Update and whose tickMsg has not been handed to Update *)
(* yet is a pending tick; keys, resizes and pending ticks are handled one  *)
(* at a time in any order.                                                 *)
(***************************************************************************)
EXTENDS Integers, Sequences, FiniteSets, TLC

\* ------------------------------------------------------------------ bounds
UnitsPerSecond == 2
MaxPending == 2

\* ------------------------------------------------------- config.go constants
Second == UnitsPerSecond
Minute == 60 * Second

DefaultBrewTime == 4 * Minute
MinBrewTime == 30 * Second
MaxBrewTime == 30 * Minute

KeyStart == "s"
KeyReset == "r"
KeyQuit == "q"
KeyQuitAlt == "ctrl+c"
KeyPause == "space"
KeyUp == "up"
KeyDown == "down"

StateIdle == "Idle"
StateBrewing == "Brewing"
StatePaused == "Paused"
StateFinished == "Finished"
TimerState == {StateIdle, StateBrewing, StatePaused, StateFinished}

DefaultTeaPresets ==
  << [Name |-> "Rooibos",   Duration |-> 4 * Minute],
     [Name |-> "Green Tea", Duration |-> 2 * Minute],
     [Name |-> "Black Tea", Duration |-> 3 * Minute],
     [Name |-> "Herbal",    Duration |-> 5 * Minute],
     [Name |-> "White Tea", Duration |-> 2 * Minute],
     [Name |-> "Oolong",    Duration |-> 3 * Minute] >>

\* NewConfig: the defaults; CustomDuration is the flag Update and the tests read.
NewConfig ==
  [BrewTime |-> DefaultBrewTime, CustomDuration |-> FALSE,
   SoundEnabled |-> TRUE, NotifyEnabled |-> TRUE, Presets |-> DefaultTeaPresets]

\* Variant: the bounds themselves are rejected.
Validate_ExclusiveBounds(c) ==
  IF c.BrewTime <= MinBrewTime THEN "brew time must be at least MinBrewTime"
  ELSE IF c.BrewTime >= MaxBrewTime THEN "brew time cannot exceed MaxBrewTime"
  ELSE "ok"

\* Validate: "ok" stands for a nil error.
Validate(c) ==
  IF c.BrewTime < MinBrewTime THEN "brew time must be at least MinBrewTime"
  ELSE IF c.BrewTime > MaxBrewTime THEN "brew time cannot exceed MaxBrewTime"
  ELSE "ok"

\* Values of the -duration flag that the model tries: the lower bound, and a
\* duration that is not a whole number of seconds.
FlagDurations == {MinBrewTime, MinBrewTime + 1}

\* ParseFlags: flag.DurationVar(&c.BrewTime, "duration", c.BrewTime, ...)
\* followed by flag.Parse().  d is the value of -duration on the command
\* line, NoFlag when the flag is absent (BrewTime keeps its default).
NoFlag == -1
ParseFlags(c, d) ==
  IF d = NoFlag THEN c ELSE [c EXCEPT !.BrewTime = d]

\* The configurations handed to initialModel: the defaults; a BrewTime given
\* on the command line; and configurations whose fields are set directly, as
\* the tests do (CustomDuration set with a BrewTime, and one of them with the
\* sound and the notification switched off).
Configs ==
  {c \in {NewConfig, ParseFlags(NewConfig, MinBrewTime)} \cup
         {[NewConfig EXCEPT !.BrewTime = d, !.CustomDuration = TRUE,
                            !.SoundEnabled = (d = MinBrewTime),
                            !.NotifyEnabled = (d = MinBrewTime)] :
             d \in FlagDurations} : Validate(c) = "ok"}

\* ----------------------------------------------------------------- model.go
\* Variant: the timer starts at the first preset's duration unless the
\* custom flag is set.
initialModel_Preset(c) ==
  [timer |-> IF c.CustomDuration THEN c.BrewTime ELSE c.Presets[1].Duration,
   state |-> StateIdle, presetIdx |-> 0, width |-> 0, height |-> 0]

initialModel(c) ==
  [timer |-> c.BrewTime, state |-> StateIdle, presetIdx |-> 0,
   width |-> 0, height |-> 0]

\* Go slices are 0-based, TLA+ sequences 1-based.
currentPreset(c, m) ==
  IF m.presetIdx >= 0 /\ m.presetIdx < Len(c.Presets)
  THEN c.Presets[m.presetIdx + 1]
  ELSE c.Presets[1]

isBrewing(m) == m.state = StateBrewing
isPaused(m) == m.state = StatePaused
isFinished(m) == m.state = StateFinished

\* ------------------------------------------------------------------ messages
KeyMsg(type, str) ==
  [kind |-> "KeyMsg", Type |-> type, String |-> str, Width |-> 0, Height |-> 0]
tickMsg ==
  [kind |-> "tickMsg", Type |-> "", String |-> "", Width |-> 0, Height |-> 0]
WindowSizeMsg(w, h) ==
  [kind |-> "WindowSizeMsg", Type |-> "", String |-> "", Width |-> w, Height |-> h]

\* The commands Update returns: nil, tick(), tea.Quit, and the completion
\* command that launches the notification and the sound.
CmdNil == "nil"
CmdTick == "tick"
CmdQuit == "Quit"
CmdAlert == "alert"

Ret(m, cmd) == [m |-> m, cmd |-> cmd]

\* tick(): a tea.Tick of one second that yields one tickMsg.
tick == CmdTick

\* -------------------------------------------------------------------- Update
\* The duration Start and Reset count down from (the if/else on
\* m.config.CustomDuration that the handlers repeat).
StartDuration(c, m) ==
  IF c.CustomDuration THEN c.BrewTime ELSE currentPreset(c, m).Duration

\* Variant: the resume branch forgets to re-arm the tick.
UpdateKeySpace_NoRearm(c, m) ==
  IF m.state = StateBrewing THEN Ret([m EXCEPT !.state = StatePaused], CmdNil)
  ELSE Ret([m EXCEPT !.state = StateBrewing], CmdNil)

\* Variant: resuming counts down from the full duration again.
UpdateKeySpace_ResumeFresh(c, m) ==
  IF m.state = StateBrewing THEN Ret([m EXCEPT !.state = StatePaused], CmdNil)
  ELSE Ret([m EXCEPT !.timer = StartDuration(c, m), !.state = StateBrewing], tick)

\* case tea.KeyMsg, msg.Type == tea.KeySpace, in Brewing or Paused
UpdateKeySpace(c, m) ==
  IF m.state = StateBrewing THEN Ret([m EXCEPT !.state = StatePaused], CmdNil)
  ELSE Ret([m EXCEPT !.state = StateBrewing], tick)

\* Variant: start sets the timer only in Idle; elsewhere it resumes what is left.
UpdateKeyStart_KeepLeftover(c, m) ==
  IF m.state # StateBrewing
  THEN Ret([m EXCEPT !.timer = IF m.state = StateIdle
                               THEN StartDuration(c, m) ELSE m.timer,
                     !.state = StateBrewing], tick)
  ELSE Ret(m, CmdNil)

\* Variant: start is not guarded by m.state != StateBrewing.
UpdateKeyStart_Restart(c, m) ==
  Ret([m EXCEPT !.timer = StartDuration(c, m), !.state = StateBrewing], tick)

\* Variant: start always counts down from config.BrewTime.
UpdateKeyStart_BrewTime(c, m) ==
  IF m.state # StateBrewing
  THEN Ret([m EXCEPT !.timer = c.BrewTime, !.state = StateBrewing], tick)
  ELSE Ret(m, CmdNil)

\* case KeyStart
UpdateKeyStart(c, m) ==
  IF m.state # StateBrewing
  THEN LET m1 == IF isFinished(m)
                 THEN [m EXCEPT !.timer = StartDuration(c, m), !.state = StateIdle]
                 ELSE m
       IN Ret([m1 EXCEPT !.timer = StartDuration(c, m1), !.state = StateBrewing], tick)
  ELSE Ret(m, CmdNil)

\* Variant: the pause key resumes from every state that is not Brewing.
UpdateKeyPause_ResumeAny(c, m) ==
  IF m.state = StateBrewing THEN Ret([m EXCEPT !.state = StatePaused], CmdNil)
  ELSE Ret([m EXCEPT !.state = StateBrewing], tick)

\* Variant: the pause key pauses but does not resume.
UpdateKeyPause_NoResume(c, m) ==
  IF m.state = StateBrewing THEN Ret([m EXCEPT !.state = StatePaused], CmdNil)
  ELSE Ret(m, CmdNil)

\* Variant: the pause key resumes without arming a tick.
UpdateKeyPause_NoRearm(c, m) ==
  IF m.state = StateBrewing THEN Ret([m EXCEPT !.state = StatePaused], CmdNil)
  ELSE IF m.state = StatePaused THEN Ret([m EXCEPT !.state = StateBrewing], CmdNil)
  ELSE Ret(m, CmdNil)

\* case KeyPause
UpdateKeyPause(c, m) ==
  IF m.state = StateBrewing THEN Ret([m EXCEPT !.state = StatePaused], CmdNil)
  ELSE IF m.state = StatePaused THEN Ret([m EXCEPT !.state = StateBrewing], tick)
  ELSE Ret(m, CmdNil)

\* Variant: reset leaves the timer as it is.
UpdateKeyReset_KeepTimer(c, m) ==
  Ret([m EXCEPT !.state = StateIdle], CmdNil)

\* Variant: reset always restores config.BrewTime.
UpdateKeyReset_BrewTime(c, m) ==
  Ret([m EXCEPT !.timer = c.BrewTime, !.state = StateIdle], CmdNil)

\* case KeyReset
UpdateKeyReset(c, m) ==
  Ret([m EXCEPT !.timer = StartDuration(c, m), !.state = StateIdle], CmdNil)

\* Variant: up sets the timer to the preset also in custom-duration mode.
UpdateKeyUp_IgnoreCustom(c, m) ==
  IF m.state = StateIdle
  THEN LET m1 == [m EXCEPT !.presetIdx =
                     (m.presetIdx - 1 + Len(c.Presets)) % Len(c.Presets)]
       IN Ret([m1 EXCEPT !.timer = currentPreset(c, m1).Duration], CmdNil)
  ELSE Ret(m, CmdNil)

\* Variant: up is not gated on Idle.
UpdateKeyUp_Ungated(c, m) ==
  LET m1 == [m EXCEPT !.presetIdx =
                (m.presetIdx - 1 + Len(c.Presets)) % Len(c.Presets)]
  IN Ret(IF ~c.CustomDuration
         THEN [m1 EXCEPT !.timer = currentPreset(c, m1).Duration]
         ELSE m1, CmdNil)

\* Variant: up stops at the first preset instead of wrapping.
UpdateKeyUp_NoWrap(c, m) ==
  IF m.state = StateIdle
  THEN LET m1 == [m EXCEPT !.presetIdx =
                     IF m.presetIdx > 0 THEN m.presetIdx - 1 ELSE m.presetIdx]
       IN Ret(IF ~c.CustomDuration
              THEN [m1 EXCEPT !.timer = currentPreset(c, m1).Duration]
              ELSE m1, CmdNil)
  ELSE Ret(m, CmdNil)

\* case KeyUp
UpdateKeyUp(c, m) ==
  IF m.state = StateIdle
  THEN LET m1 == [m EXCEPT !.presetIdx =
                     (m.presetIdx - 1 + Len(c.Presets)) % Len(c.Presets)]
       IN Ret(IF ~c.CustomDuration
              THEN [m1 EXCEPT !.timer = currentPreset(c, m1).Duration]
              ELSE m1, CmdNil)
  ELSE Ret(m, CmdNil)

\* Variant: down stops at the last preset instead of wrapping.
UpdateKeyDown_NoWrap(c, m) ==
  IF m.state = StateIdle
  THEN LET m1 == [m EXCEPT !.presetIdx =
                     IF m.presetIdx + 1 < Len(c.Presets)
                     THEN m.presetIdx + 1 ELSE m.presetIdx]
       IN Ret(IF ~c.CustomDuration
              THEN [m1 EXCEPT !.timer = currentPreset(c, m1).Duration]
              ELSE m1, CmdNil)
  ELSE Ret(m, CmdNil)

\* Variant: down selects the next preset in every state; the timer follows
\* only in Idle.
UpdateKeyDown_AnyState(c, m) ==
  LET m1 == [m EXCEPT !.presetIdx = (m.presetIdx + 1) % Len(c.Presets)]
  IN Ret(IF ~c.CustomDuration /\ m.state = StateIdle
         THEN [m1 EXCEPT !.timer = currentPreset(c, m1).Duration]
         ELSE m1, CmdNil)

\* case KeyDown
UpdateKeyDown(c, m) ==
  IF m.state = StateIdle
  THEN LET m1 == [m EXCEPT !.presetIdx = (m.presetIdx + 1) % Len(c.Presets)]
       IN Ret(IF ~c.CustomDuration
              THEN [m1 EXCEPT !.timer = currentPreset(c, m1).Duration]
              ELSE m1, CmdNil)
  ELSE Ret(m, CmdNil)

\* Variant: a tick also counts down while Paused.
UpdateTick_Ungated(c, m) ==
  IF m.state \in {StateBrewing, StatePaused}
  THEN LET t == m.timer - Second
       IN IF t <= 0
          THEN Ret([m EXCEPT !.timer = 0, !.state = StateFinished], CmdAlert)
          ELSE Ret([m EXCEPT !.timer = t], tick)
  ELSE Ret(m, CmdNil)

\* Variant: the finishing tick re-arms the tick instead of returning the
\* completion command.
UpdateTick_RearmOnFinish(c, m) ==
  IF m.state = StateBrewing
  THEN LET t == m.timer - Second
       IN IF t <= 0
          THEN Ret([m EXCEPT !.timer = 0, !.state = StateFinished], tick)
          ELSE Ret([m EXCEPT !.timer = t], tick)
  ELSE Ret(m, CmdNil)

\* Variant: a tick counts down but does not re-arm the tick.
UpdateTick_NoRearm(c, m) ==
  IF m.state = StateBrewing
  THEN LET t == m.timer - Second
       IN IF t <= 0
          THEN Ret([m EXCEPT !.timer = 0, !.state = StateFinished], CmdAlert)
          ELSE Ret([m EXCEPT !.timer = t], CmdNil)
  ELSE Ret(m, CmdNil)

\* Variant: a tick handled in Finished returns the completion command again.
UpdateTick_AlertAgain(c, m) ==
  IF m.state = StateBrewing
  THEN LET t == m.timer - Second
       IN IF t <= 0
          THEN Ret([m EXCEPT !.timer = 0, !.state = StateFinished], CmdAlert)
          ELSE Ret([m EXCEPT !.timer = t], tick)
  ELSE IF m.state = StateFinished THEN Ret(m, CmdAlert)
  ELSE Ret(m, CmdNil)

\* Variant: the countdown ends only below zero (m.timer < 0).
UpdateTick_StrictZero(c, m) ==
  IF m.state = StateBrewing
  THEN LET t == m.timer - Second
       IN IF t < 0
          THEN Ret([m EXCEPT !.timer = 0, !.state = StateFinished], CmdAlert)
          ELSE Ret([m EXCEPT !.timer = t], tick)
  ELSE Ret(m, CmdNil)

\* Variant: the finished branch does not clamp the timer to 0.
UpdateTick_NoClamp(c, m) ==
  IF m.state = StateBrewing
  THEN LET t == m.timer - Second
       IN IF t <= 0
          THEN Ret([m EXCEPT !.timer = t, !.state = StateFinished], CmdAlert)
          ELSE Ret([m EXCEPT !.timer = t], tick)
  ELSE Ret(m, CmdNil)

\* case tickMsg
UpdateTick(c, m) ==
  IF m.state = StateBrewing
  THEN LET t == m.timer - Second
       IN IF t <= 0
          THEN Ret([m EXCEPT !.timer = 0, !.state = StateFinished], CmdAlert)
          ELSE Ret([m EXCEPT !.timer = t], tick)
  ELSE Ret(m, CmdNil)

\* Variant: a resize redraws from scratch, back in Idle.
UpdateWindowSize_Redraw(c, m, msg) ==
  Ret([m EXCEPT !.width = msg.Width, !.height = msg.Height,
                !.state = StateIdle], CmdNil)

\* case tea.WindowSizeMsg
UpdateWindowSize(c, m, msg) ==
  Ret([m EXCEPT !.width = msg.Width, !.height = msg.Height], CmdNil)

\* Variant: quit stops the countdown before it ends the program.
UpdateKeyQuit_Stop(c, m) ==
  Ret([m EXCEPT !.state = StateIdle], CmdQuit)

\* case KeyQuit, KeyQuitAlt
UpdateKeyQuit(c, m) ==
  Ret(m, CmdQuit)

\* Variant: a key that matches no case is taken for a reset.
UpdateDefault_Reset(c, m) ==
  Ret([m EXCEPT !.timer = StartDuration(c, m), !.state = StateIdle], CmdNil)

\* the return m, nil that ends Update: a key that matches no case
UpdateDefault(c, m) ==
  Ret(m, CmdNil)

Update(c, m, msg) ==
  IF msg.kind = "KeyMsg"
  THEN IF msg.Type = "KeySpace" /\ m.state \in {StateBrewing, StatePaused}
       THEN UpdateKeySpace(c, m)
       ELSE IF msg.String \in {KeyQuit, KeyQuitAlt} THEN UpdateKeyQuit(c, m)
       ELSE IF msg.String = KeyStart THEN UpdateKeyStart(c, m)
       ELSE IF msg.String = KeyPause THEN UpdateKeyPause(c, m)
       ELSE IF msg.String = KeyReset THEN UpdateKeyReset(c, m)
       ELSE IF msg.String = KeyUp THEN UpdateKeyUp(c, m)
       ELSE IF msg.String = KeyDown THEN UpdateKeyDown(c, m)
       ELSE UpdateDefault(c, m)
  ELSE IF msg.kind = "tickMsg" THEN UpdateTick(c, m)
  ELSE IF msg.kind = "WindowSizeMsg" THEN UpdateWindowSize(c, m, msg)
  ELSE Ret(m, CmdNil)

\* --------------------------------------------- the completion command's goroutine
\* The completion command starts a goroutine and returns nil at once.  The
\* goroutine calls beeep.Notify if config.NotifyEnabled, then playSound(),
\* whose own goroutine tries the MP3 and, if that fails, the system beep.
\* A job is the call the goroutine is in: JobNone when it has ended.
JobNone == "none"
JobNotify == "notify"
JobMP3 == "mp3"
JobBeep == "beep"

\* No call made yet.
NoCalls == [j \in {JobNotify, JobMP3, JobBeep} |-> 0]

\* The first call of the goroutine.
CompletionJob(c) ==
  IF c.NotifyEnabled THEN JobNotify ELSE JobMP3

\* Variant: a failed notification is sent again.
AfterNotify_Retry(ok) == IF ok THEN JobMP3 ELSE JobNotify

\* beeep.Notify returned (an error is logged): playSound() comes next.
AfterNotify(ok) ==
  JobMP3

\* Variant: the system beep is played whether or not the MP3 was.
AfterMP3_AlwaysBeep(ok) ==
  JobBeep

\* tryMP3Playback returned: on an error trySystemBeep comes next.
AfterMP3(ok) ==
  IF ok THEN JobNone ELSE JobBeep

\* trySystemBeep returned (an error is logged).
AfterBeep(ok) ==
  JobNone

\* ------------------------------------------------------------------ audio.go
\* runtime.GOOS: the three systems trySystemBeep knows and one it does not.
GOOS == {"windows", "darwin", "linux", "freebsd"}

\* The system the other specifications are built for.
BuildOS == "linux"

\* playLinuxBeep: the commands of its loop.
LinuxCommands == <<"paplay", "aplay", "beep", "echo">>

\* The commands trySystemBeep runs one after the other while they fail:
\* one on Windows and on macOS; on Linux the loop's, and after the loop the
\* terminal bell once more, whose result is returned.
BeepChain(os) ==
  IF os = "windows" THEN <<"powershell">>
  ELSE IF os = "darwin" THEN <<"afplay">>
  ELSE IF os = "linux" THEN LinuxCommands \o <<"echo">>
  ELSE <<>>

\* After the k-th command of the chain returned: trySystemBeep returns on
\* the first success and at the end of the chain, else runs the next.
AfterCommand(os, k, ok) ==
  IF ok \/ k >= Len(BeepChain(os)) THEN JobNone ELSE JobBeep

\* ---------------------------------------------------------------------- main
\* Where main is: ProcMain after NewConfig(), ProcParsed after ParseFlags(),
\* ProcRunning once p.Run() runs the program, then one of the three ends.
ProcMain == "main"
ProcParsed == "parsed"
ProcRunning == "running"
ProcFatal == "fatal"
ProcRunErr == "runerr"
ProcQuit == "quit"

\* The exit code of the process: log.Fatalf exits with 1; after tea.Quit, and
\* after log.Printf of an error of p.Run(), main returns.  -1: still running.
ExitCode(p) ==
  IF p = ProcFatal THEN 1
  ELSE IF p \in {ProcQuit, ProcRunErr} THEN 0
  ELSE -1

\* The model before initialModel has run: Go's zero value.
zeroModel ==
  [timer |-> 0, state |-> StateIdle, presetIdx |-> 0, width |-> 0, height |-> 0]

\* ---------------------------------------------------------------------- View
DefaultProgressBarWidth == 20

\* int(x) for the quotient a / b of a float64 (b > 0): towards zero.
TruncDiv(a, b) == IF a >= 0 THEN a \div b ELSE -((-a) \div b)

\* The %.0f of a / b (b > 0): to the nearest integer, halves to even.
RoundDiv(a, b) ==
  LET n == IF a >= 0 THEN a ELSE -a
      q == n \div b
      r == n % b
      up == 2 * r > b \/ (2 * r = b /\ q % 2 = 1)
      v == IF up THEN q + 1 ELSE q
  IN IF a >= 0 THEN v ELSE -v

\* renderProgressBar: percent is elapsed / total, cut down to 1 when above;
\* filled is the number of fill characters asked for, cells the number of
\* characters the two loops put into the bar, pct the percentage printed.
\* (Quotients are taken exactly, not in float64.)
renderProgressBar(total, elapsed, width) ==
  IF total = 0
  THEN [shown |-> FALSE, num |-> 0, filled |-> 0, cells |-> 0, pct |-> 0]
  ELSE LET num == IF elapsed > total THEN total ELSE elapsed
           filled == TruncDiv(num * width, total)
       IN [shown |-> TRUE,
           num |-> num,
           filled |-> filled,
           cells |-> (IF filled > 0 THEN filled ELSE 0) +
                     (IF width > filled THEN width - filled ELSE 0),
           pct |-> RoundDiv(num * 100, total)]

\* The progress bar of View: total is the selected preset's duration.
ViewProgress(c, m) ==
  LET total == currentPreset(c, m).Duration
      elapsed == total - m.timer
  IN renderProgressBar(total, elapsed, DefaultProgressBarWidth)

\* n down keys handled one after the other.
RECURSIVE DownTimes(_, _, _)
DownTimes(c, m, n) ==
  IF n = 0 THEN m
  ELSE DownTimes(c, Update(c, m, KeyMsg("KeyDown", KeyDown)).m, n - 1)

\* ------------------------------------------------------------------- state
VARIABLES
  config,     \* the *Config the model points to
  timer,      \* model.timer
  state,      \* model.state
  presetIdx,  \* model.presetIdx
  width,      \* model.width
  height,     \* model.height
  cmd,        \* the tea.Cmd returned by the last call of Update
  lastMsg,    \* the message the last call of Update handled
  pending,    \* tick commands returned by Update whose tickMsg is not handled yet
  stale,      \* those of them that were armed in an earlier Brewing period
  nticks,     \* tickMsgs handled since the last start, -1 once another message came
  brewFrom,   \* the timer value the last start set, 0 once another message came
  prevState,  \* model.state as it was when the last message was handed to Update
  alerts,     \* completion commands returned since the last start or reset
  job,        \* the call the goroutine of the last completion command is in
  calls,      \* how often that goroutine has made each of its calls
  goos,       \* runtime.GOOS
  trace,      \* what playSound has played so far, in order, with the outcomes
  logs,       \* what playSound has logged so far
  proc,       \* where main is
  args        \* the value of -duration on the command line, NoFlag without it

vars == <<config, timer, state, presetIdx, width, height, cmd, lastMsg,
          pending, stale, nticks, brewFrom, prevState, alerts, job, calls, goos,
          trace, logs, proc, args>>

M == [timer |-> timer, state |-> state, presetIdx |-> presetIdx,
      width |-> width, height |-> height]

\* tea.Quit ends the program: no message is handled after it.
Terminated == cmd = CmdQuit

\* tea.NewProgram(initialModel(config)) for a configuration of cs.
InitWith(cs) ==
  /\ config \in cs
  /\ LET m == initialModel(config)
     IN /\ timer = m.timer
        /\ state = m.state
        /\ presetIdx = m.presetIdx
        /\ width = m.width
        /\ height = m.height
  /\ cmd = CmdNil
  /\ lastMsg = "init"
  /\ pending = 0
  /\ stale = 0
  /\ nticks = -1
  /\ brewFrom = 0
  /\ prevState = StateIdle
  /\ alerts = 0
  /\ job = JobNone
  /\ calls = NoCalls
  /\ trace = <<>>
  /\ logs = <<>>
  /\ proc = ProcRunning
  /\ args = NoFlag

Init == InitWith(Configs) /\ goos = BuildOS

\* The runtime hands msg to Update, installs the returned model and runs the
\* returned command.  consumed is the number of pending ticks this message
\* uses up (1 for a tickMsg) and consumedStale how many of them are stale.
Handle(msg, label, consumed, consumedStale) ==
  /\ proc = ProcRunning
  /\ ~Terminated
  /\ LET r == Update(config, M, msg)
         armed == IF r.cmd = CmdTick THEN 1 ELSE 0
         p == pending - consumed + armed
     IN /\ p <= MaxPending
        /\ timer' = r.m.timer
        /\ state' = r.m.state
        /\ presetIdx' = r.m.presetIdx
        /\ width' = r.m.width
        /\ height' = r.m.height
        /\ cmd' = r.cmd
        /\ pending' = p
        /\ stale' = IF r.m.state = StateBrewing /\ state = StateBrewing
                    THEN stale - consumedStale
                    ELSE IF r.m.state = StateBrewing
                    THEN pending - consumed
                    ELSE p
        /\ IF msg.kind = "tickMsg"
           THEN /\ nticks' = (IF nticks >= 0 THEN nticks + 1 ELSE -1)
                /\ brewFrom' = brewFrom
           ELSE IF msg.String = KeyStart /\ r.cmd = CmdTick
           THEN /\ nticks' = 0
                /\ brewFrom' = r.m.timer
           ELSE /\ nticks' = -1
                /\ brewFrom' = 0
        /\ alerts' = IF r.cmd = CmdAlert THEN alerts + 1
                     ELSE IF msg.kind = "KeyMsg" /\
                             \/ (msg.String = KeyStart /\ r.cmd = CmdTick)
                             \/ msg.String = KeyReset
                     THEN 0
                     ELSE alerts
        /\ proc' = IF r.cmd = CmdQuit THEN ProcQuit ELSE proc
  /\ prevState' = state
  /\ lastMsg' = label
  /\ UNCHANGED <<config, job, calls, goos, trace, logs, args>>

Sizes == {<<80, 24>>}

PressSpace == Handle(KeyMsg("KeySpace", " "), "KeySpace", 0, 0)
PressStart == Handle(KeyMsg("KeyRunes", KeyStart), "s", 0, 0)
PressPause == Handle(KeyMsg("KeyRunes", KeyPause), "space", 0, 0)
PressReset == Handle(KeyMsg("KeyRunes", KeyReset), "r", 0, 0)
PressUp == Handle(KeyMsg("KeyUp", KeyUp), "up", 0, 0)
PressDown == Handle(KeyMsg("KeyDown", KeyDown), "down", 0, 0)
PressQuit == Handle(KeyMsg("KeyRunes", KeyQuit), "q", 0, 0)
PressQuitAlt == Handle(KeyMsg("KeyCtrlC", KeyQuitAlt), "ctrl+c", 0, 0)
PressOther == Handle(KeyMsg("KeyRunes", "x"), "x", 0, 0)
Resize == \E s \in Sizes : Handle(WindowSizeMsg(s[1], s[2]), "resize", 0, 0)

\* A pending tick fires: one armed in the current Brewing period, or a stale one.
DeliverTick ==
  /\ pending - stale > 0
  /\ Handle(tickMsg, "tick", 1, 0)
DeliverStaleTick ==
  /\ stale > 0
  /\ Handle(tickMsg, "tick", 1, 1)

Next ==
  \/ PressSpace
  \/ PressStart
  \/ PressPause
  \/ PressReset
  \/ PressUp
  \/ PressDown
  \/ PressQuit
  \/ PressQuitAlt
  \/ PressOther
  \/ Resize
  \/ DeliverTick
  \/ DeliverStaleTick

Spec == Init /\ [][Next]_vars

\* The runs in which no pause, reset or quit key is pressed; no tick is ever
\* stale in them.  Every tea.Tick fires: a pending tick is eventually handed
\* to Update.
NextNoPause ==
  \/ PressStart
  \/ PressUp
  \/ PressDown
  \/ PressOther
  \/ Resize
  \/ DeliverTick

FairSpec == Init /\ [][NextNoPause]_vars /\ WF_vars(DeliverTick)

\* ------------------------------------------------- the completion goroutine
\* A step of the completion command or of its goroutine.  They have no
\* access to the model the runtime holds and send no message.
GoroutineStep(next, nextCalls) ==
  /\ proc = ProcRunning
  /\ job' = next
  /\ calls' = nextCalls
  /\ lastMsg' = "job"
  /\ prevState' = state
  /\ UNCHANGED <<config, timer, state, presetIdx, width, height, cmd,
                 pending, stale, nticks, brewFrom, alerts, proc, args, goos>>

\* The goroutine goes on to the call next (to its end with JobNone), having
\* made the calls made before.
JobStep(next, made) ==
  GoroutineStep(next,
                IF next = JobNone THEN made ELSE [made EXCEPT ![next] = @ + 1])

\* The runtime runs the completion command the last tick returned: the
\* goroutine starts and the command returns nil.
RunCompletion ==
  /\ cmd = CmdAlert
  /\ lastMsg = "tick"
  /\ JobStep(CompletionJob(config), NoCalls)
  /\ trace' = <<>>
  /\ logs' = <<>>

\* A call of the goroutine returns, with or without an error.
NotifyReturns ==
  /\ job = JobNotify
  /\ \E ok \in BOOLEAN : JobStep(AfterNotify(ok), calls)
  /\ UNCHANGED <<trace, logs>>
MP3Returns ==
  /\ job = JobMP3
  /\ \E ok \in BOOLEAN : JobStep(AfterMP3(ok), calls)
  /\ UNCHANGED <<trace, logs>>
BeepReturns ==
  /\ job = JobBeep
  /\ \E ok \in BOOLEAN : JobStep(AfterBeep(ok), calls)
  /\ UNCHANGED <<trace, logs>>

\* tryMP3Playback returns: playSound logs an error and goes on to
\* trySystemBeep.
PlayMP3 ==
  /\ job = JobMP3
  /\ \E ok \in BOOLEAN :
        /\ JobStep(AfterMP3(ok), calls)
        /\ trace' = Append(trace, [cmd |-> "mp3", ok |-> ok])
        /\ logs' = IF ok THEN logs ELSE Append(logs, "MP3 playback failed")

\* trySystemBeep: the next command of the chain is run and returns.  On a
\* system without a chain trySystemBeep logs that and returns nil; when the
\* last command has failed playSound logs the error and that all failed.
RunBeep ==
  /\ job = JobBeep
  /\ LET chain == BeepChain(goos)
         k == Len(trace)
     IN IF chain = <<>>
        THEN /\ GoroutineStep(JobNone, calls)
             /\ logs' = Append(logs, "No system beep implementation")
             /\ trace' = trace
        ELSE \E ok \in BOOLEAN :
               /\ GoroutineStep(AfterCommand(goos, k, ok), calls)
               /\ trace' = Append(trace, [cmd |-> chain[k], ok |-> ok])
               /\ logs' = IF ~ok /\ AfterCommand(goos, k, ok) = JobNone
                          THEN logs \o <<"System beep failed",
                                         "All audio methods failed">>
                          ELSE logs

\* A brew of 30 seconds on each system, with every command of playSound a
\* step of its own.
AudioInit ==
  /\ InitWith({c \in Configs : c.CustomDuration /\ c.BrewTime = MinBrewTime})
  /\ goos \in GOOS

AudioNext ==
  \/ PressStart
  \/ PressReset
  \/ DeliverTick
  \/ DeliverStaleTick
  \/ RunCompletion
  \/ NotifyReturns
  \/ PlayMP3
  \/ RunBeep

AudioSpec == AudioInit /\ [][AudioNext]_vars

\* The sessions of the configurations that count down from the custom 30
\* seconds, with the goroutine's calls as steps of their own.
AlertInit == Init /\ config.CustomDuration

AlertNext ==
  \/ Next
  \/ RunCompletion
  \/ NotifyReturns
  \/ MP3Returns
  \/ BeepReturns

AlertSpec == AlertInit /\ [][AlertNext]_vars

\* ---------------------------------------------------------------------- View
\* The configuration TestCustomDurationReset builds: three minutes, with
\* CustomDuration set.
ViewConfigs ==
  {[NewConfig EXCEPT !.BrewTime = 3 * Minute, !.CustomDuration = TRUE]}

ViewInit == InitWith(ViewConfigs) /\ goos = BuildOS

ViewSpec == ViewInit /\ [][Next]_vars

\* ---------------------------------------------------------------------- main
\* The command lines tried: no -duration, the two bounds of Validate, and
\* the durations next to them.
MainArgs ==
  {NoFlag} \cup FlagDurations \cup {MinBrewTime - 1, MaxBrewTime, MaxBrewTime + 1}

\* main after config := NewConfig().
MainInit ==
  /\ args \in MainArgs
  /\ config = NewConfig
  /\ proc = ProcMain
  /\ timer = zeroModel.timer
  /\ state = zeroModel.state
  /\ presetIdx = zeroModel.presetIdx
  /\ width = zeroModel.width
  /\ height = zeroModel.height
  /\ cmd = CmdNil
  /\ lastMsg = "main"
  /\ pending = 0
  /\ stale = 0
  /\ nticks = -1
  /\ brewFrom = 0
  /\ prevState = StateIdle
  /\ alerts = 0
  /\ job = JobNone
  /\ calls = NoCalls
  /\ goos = BuildOS
  /\ trace = <<>>
  /\ logs = <<>>

\* config.ParseFlags()
MainParseFlags ==
  /\ proc = ProcMain
  /\ config' = ParseFlags(config, args)
  /\ proc' = ProcParsed
  /\ lastMsg' = "ParseFlags"
  /\ UNCHANGED <<timer, state, presetIdx, width, height, cmd, pending, stale,
                 nticks, brewFrom, prevState, alerts, job, calls, args,
                 goos, trace, logs>>

\* config.Validate(): on an error log.Fatalf ends the process; otherwise
\* tea.NewProgram(initialModel(config)) and p.Run().
MainValidate ==
  /\ proc = ProcParsed
  /\ IF Validate(config) # "ok"
     THEN /\ proc' = ProcFatal
          /\ lastMsg' = "Fatalf"
          /\ UNCHANGED <<timer, state, presetIdx, width, height>>
     ELSE LET m == initialModel(config)
          IN /\ proc' = ProcRunning
             /\ lastMsg' = "init"
             /\ timer' = m.timer
             /\ state' = m.state
             /\ presetIdx' = m.presetIdx
             /\ width' = m.width
             /\ height' = m.height
  /\ UNCHANGED <<config, cmd, pending, stale, nticks, brewFrom, prevState,
                 alerts, job, calls, args,
                 goos, trace, logs>>

\* p.Run() returns an error before any message is handled (no terminal to
\* open): main logs it with log.Printf and returns.
MainRunFails ==
  /\ proc = ProcRunning
  /\ lastMsg = "init"
  /\ proc' = ProcRunErr
  /\ lastMsg' = "Run error"
  /\ UNCHANGED <<config, timer, state, presetIdx, width, height, cmd, pending,
                 stale, nticks, brewFrom, prevState, alerts, job, calls, args,
                 goos, trace, logs>>

\* main from its first line; of the messages, start, reset, down, quit and
\* the ticks.
MainNext ==
  \/ MainParseFlags
  \/ MainValidate
  \/ MainRunFails
  \/ PressStart
  \/ PressReset
  \/ PressDown
  \/ PressQuit
  \/ DeliverTick
  \/ DeliverStaleTick

MainSpec == MainInit /\ [][MainNext]_vars

TypeOK ==
  /\ config \in Configs
  /\ timer \in Int
  /\ state \in TimerState
  /\ presetIdx \in Int
  /\ pending \in 0..MaxPending
  /\ stale \in 0..pending
  /\ cmd \in {CmdNil, CmdTick, CmdQuit, CmdAlert}
  /\ job \in {JobNone, JobNotify, JobMP3, JobBeep}
  /\ proc \in {ProcMain, ProcParsed, ProcRunning, ProcFatal, ProcRunErr, ProcQuit}

\* ------------------------------------------------------------------- claims

\* C1: in every reachable state at most one tick is pending (armed by tick()
\* and not yet handed to Update).
C1_AtMostOnePendingTick == pending <= 1

\* C2: a tick armed in an earlier Brewing period never decrements the timer
\* of a later Brewing period: whenever such a tick is pending while the
\* session is Brewing, handing it to Update leaves the timer unchanged.
C2_StaleTickNeverDecrements ==
  (state = StateBrewing /\ stale > 0) =>
     Update(config, M, tickMsg).m.timer = timer

\* C3: after a start that set the timer to D whole seconds, with only ticks
\* handled since: after k < D ticks the state is Brewing, the timer is D - k
\* seconds and the command is a tick; after the D-th tick the state is
\* Finished, the timer 0 and the command the completion alert.
C3_TickCountdown ==
  (nticks >= 0 /\ brewFrom % Second = 0 /\ nticks * Second <= brewFrom) =>
     IF nticks * Second < brewFrom
     THEN /\ state = StateBrewing
          /\ timer = brewFrom - nticks * Second
          /\ cmd = CmdTick
     ELSE /\ state = StateFinished
          /\ timer = 0
          /\ cmd = CmdAlert

C3_Witness ==
  /\ nticks > 0
  /\ brewFrom % Second = 0
  /\ nticks * Second = brewFrom
  /\ state = StateFinished
  /\ cmd = CmdAlert

\* C4: the timer is never negative, also when the custom duration is not a
\* whole number of seconds.
C4_TimerNonNegative == timer >= 0

C4_Witness ==
  /\ config.CustomDuration
  /\ config.BrewTime % Second # 0
  /\ lastMsg = "tick"
  /\ state = StateFinished
  /\ timer = 0

\* C5: the timer is 0 exactly when the state is Finished.
C5_ZeroIffFinished == (timer = 0) <=> (state = StateFinished)

C5_Witness ==
  /\ lastMsg = "tick"
  /\ cmd = CmdAlert
  /\ state = StateFinished
  /\ timer = 0

\* C6: 's' handled in Idle yields Brewing, the timer set to the custom
\* duration when CustomDuration is set and to the selected preset's duration
\* otherwise, and one tick armed.
C6_StartFromIdle ==
  [][(state = StateIdle /\ lastMsg' = "s") =>
        /\ state' = StateBrewing
        /\ timer' = (IF config.CustomDuration THEN config.BrewTime
                     ELSE DefaultTeaPresets[presetIdx + 1].Duration)
        /\ presetIdx' = presetIdx
        /\ cmd' = CmdTick
        /\ pending' = pending + 1]_vars

C6_Witness ==
  /\ lastMsg = "s"
  /\ state = StateBrewing
  /\ ~config.CustomDuration
  /\ presetIdx = 3
  /\ timer = 5 * Minute
  /\ timer # config.BrewTime
  /\ cmd = CmdTick

\* C7: 'r' handled in any state yields Idle, the timer set to the custom
\* duration or the selected preset's duration, presetIdx unchanged, and no
\* command (no tick is armed).
C7_Reset ==
  [][(lastMsg' = "r") =>
        /\ state' = StateIdle
        /\ timer' = (IF config.CustomDuration THEN config.BrewTime
                     ELSE DefaultTeaPresets[presetIdx + 1].Duration)
        /\ presetIdx' = presetIdx
        /\ cmd' = CmdNil
        /\ pending' = pending]_vars

C7_Witness ==
  /\ lastMsg = "r"
  /\ state = StateIdle
  /\ ~config.CustomDuration
  /\ presetIdx = 2
  /\ timer = 3 * Minute
  /\ pending = 1

\* C8: from any Brewing session two successive pause toggles (by either
\* trigger) go to Paused and back to Brewing with timer and presetIdx as
\* before; the first returns no command, the second a tick.
C8_PauseResume ==
  state = StateBrewing =>
    \A k1, k2 \in {KeyMsg("KeySpace", " "), KeyMsg("KeyRunes", KeyPause)} :
       LET r1 == Update(config, M, k1)
           r2 == Update(config, r1.m, k2)
       IN /\ r1.m = [M EXCEPT !.state = StatePaused]
          /\ r1.cmd = CmdNil
          /\ r2.m = M
          /\ r2.cmd = CmdTick

C8_Witness ==
  /\ lastMsg = "KeySpace"
  /\ state = StateBrewing
  /\ cmd = CmdTick
  /\ pending = 2
  /\ timer < (IF config.CustomDuration THEN config.BrewTime
              ELSE DefaultTeaPresets[presetIdx + 1].Duration)

\* C9: presetIdx changes only on an up/down key handled in Idle; up and down
\* handled in Brewing, Paused or Finished change nothing and return no command.
C9_PresetOnlyInIdle ==
  [][/\ (presetIdx' # presetIdx) =>
           (state = StateIdle /\ state' = StateIdle /\ lastMsg' \in {"up", "down"})
     /\ (state # StateIdle /\ lastMsg' \in {"up", "down"}) =>
           /\ state' = state
           /\ timer' = timer
           /\ presetIdx' = presetIdx
           /\ cmd' = CmdNil
           /\ pending' = pending]_vars

C9_Witness ==
  /\ lastMsg = "up"
  /\ state = StateBrewing
  /\ presetIdx = 4
  /\ pending = 1

\* C10: in Idle, down sets presetIdx to (presetIdx + 1) mod N and up to
\* (presetIdx - 1) mod N; presetIdx is always in 0..N-1; without
\* CustomDuration the timer becomes the new preset's duration; the state
\* stays Idle and no command is returned.
C10_PresetNavigation ==
  /\ [](presetIdx \in 0..(Len(DefaultTeaPresets) - 1))
  /\ [][(state = StateIdle /\ lastMsg' \in {"up", "down"}) =>
          /\ presetIdx' = (IF lastMsg' = "down" THEN presetIdx + 1
                           ELSE presetIdx - 1) % Len(DefaultTeaPresets)
          /\ timer' = (IF config.CustomDuration THEN timer
                       ELSE DefaultTeaPresets[presetIdx' + 1].Duration)
          /\ state' = StateIdle
          /\ cmd' = CmdNil
          /\ pending' = pending]_vars

C10_Witness ==
  /\ lastMsg = "up"
  /\ state = StateIdle
  /\ presetIdx = Len(DefaultTeaPresets) - 1
  /\ ~config.CustomDuration
  /\ timer = 3 * Minute

\* C11 (as stated): with CustomDuration set, up and down change presetIdx
\* (in Idle) but never the timer; every 's' and every 'r' sets the timer to
\* the custom duration; in every Idle state the timer is the custom duration.
C11_CustomDurationEveryStart ==
  /\ []((config.CustomDuration /\ state = StateIdle) => timer = config.BrewTime)
  /\ [][config.CustomDuration =>
          /\ (lastMsg' \in {"up", "down"}) =>
                /\ timer' = timer
                /\ (state = StateIdle => presetIdx' # presetIdx)
          /\ (lastMsg' \in {"s", "r"}) => timer' = config.BrewTime]_vars

\* C11 (amended): as above, with 's' restricted to the states in which it
\* starts a brew (Idle, Paused, Finished); in Brewing 's' changes nothing.
C11_CustomDuration ==
  /\ []((config.CustomDuration /\ state = StateIdle) => timer = config.BrewTime)
  /\ [][config.CustomDuration =>
          /\ (lastMsg' \in {"up", "down"}) =>
                /\ timer' = timer
                /\ (state = StateIdle => presetIdx' # presetIdx)
          /\ (lastMsg' = "r") => timer' = config.BrewTime
          /\ (lastMsg' = "s" /\ state # StateBrewing) => timer' = config.BrewTime
          /\ (lastMsg' = "s" /\ state = StateBrewing) => timer' = timer]_vars

C11_Witness ==
  /\ config.CustomDuration
  /\ lastMsg = "s"
  /\ prevState = StatePaused
  /\ state = StateBrewing
  /\ presetIdx = 2
  /\ timer = config.BrewTime
  /\ timer # DefaultTeaPresets[3].Duration

\* C12: the initial session is Idle with presetIdx 0 and the timer equal to
\* the custom duration if CustomDuration is set, otherwise to the first
\* preset's duration.
C12_InitialEffectiveDuration ==
  lastMsg = "init" =>
     /\ state = StateIdle
     /\ presetIdx = 0
     /\ timer = (IF config.CustomDuration THEN config.BrewTime
                 ELSE DefaultTeaPresets[1].Duration)

C14_StartFromFinished ==
  /\ [](state = StateFinished =>
          Update(config, M, KeyMsg("KeyRunes", KeyStart)) =
          Update(config, Update(config, M, KeyMsg("KeyRunes", KeyReset)).m,
                 KeyMsg("KeyRunes", KeyStart)))
  /\ [][(state = StateFinished /\ lastMsg' = "s") =>
          /\ state' = StateBrewing
          /\ timer' = (IF config.CustomDuration THEN config.BrewTime
                       ELSE DefaultTeaPresets[presetIdx + 1].Duration)
          /\ timer' > 0
          /\ presetIdx' = presetIdx
          /\ cmd' = CmdTick
          /\ pending' = pending + 1]_vars

C14_Witness ==
  /\ lastMsg = "s"
  /\ prevState = StateFinished
  /\ state = StateBrewing
  /\ ~config.CustomDuration
  /\ presetIdx = 1
  /\ timer = 2 * Minute
  /\ cmd = CmdTick

\* C15: 's' handled while Brewing changes neither state, timer nor presetIdx
\* and returns no command, so no further tick is armed.
C15_StartWhileBrewing ==
  [][(state = StateBrewing /\ lastMsg' = "s") =>
        /\ state' = StateBrewing
        /\ timer' = timer
        /\ presetIdx' = presetIdx
        /\ cmd' = CmdNil
        /\ pending' = pending]_vars

C15_Witness ==
  /\ lastMsg = "s"
  /\ prevState = StateBrewing
  /\ state = StateBrewing
  /\ cmd = CmdNil
  /\ pending = 1
  /\ timer < (IF config.CustomDuration THEN config.BrewTime
              ELSE DefaultTeaPresets[presetIdx + 1].Duration)

\* C16 (as stated): 's' handled in Paused, and a pause toggle (either
\* trigger) handled in Idle or in Finished, leave state, timer and presetIdx
\* unchanged and return no command.
C16_UnlistedPairsNoOp ==
  [][(\/ (state = StatePaused /\ lastMsg' = "s")
      \/ (state \in {StateIdle, StateFinished} /\ lastMsg' \in {"KeySpace", "space"})) =>
        /\ state' = state
        /\ timer' = timer
        /\ presetIdx' = presetIdx
        /\ cmd' = CmdNil
        /\ pending' = pending]_vars

\* C16 (amended): a pause toggle handled in Idle or in Finished changes
\* nothing and returns no command; 's' handled in Paused starts a new brew:
\* Brewing, the timer set to the custom or preset duration, one tick armed.
C16_UnlistedPairs ==
  [][/\ (state \in {StateIdle, StateFinished} /\ lastMsg' \in {"KeySpace", "space"}) =>
           /\ state' = state
           /\ timer' = timer
           /\ presetIdx' = presetIdx
           /\ cmd' = CmdNil
           /\ pending' = pending
     /\ (state = StatePaused /\ lastMsg' = "s") =>
           /\ state' = StateBrewing
           /\ timer' = (IF config.CustomDuration THEN config.BrewTime
                        ELSE DefaultTeaPresets[presetIdx + 1].Duration)
           /\ presetIdx' = presetIdx
           /\ cmd' = CmdTick
           /\ pending' = pending + 1]_vars

C16_Witness ==
  /\ lastMsg = "s"
  /\ prevState = StatePaused
  /\ state = StateBrewing
  /\ ~config.CustomDuration
  /\ presetIdx = 0
  /\ timer = 4 * Minute
  /\ pending = 2
  /\ stale = 1

\* C17: a tick handled while the state is Idle, Paused or Finished changes
\* neither state, timer nor presetIdx and returns no command; no new tick is
\* armed (the handled one is simply gone).
C17_TickIgnoredOutsideBrewing ==
  [][(state # StateBrewing /\ lastMsg' = "tick") =>
        /\ state' = state
        /\ timer' = timer
        /\ presetIdx' = presetIdx
        /\ cmd' = CmdNil
        /\ pending' = pending - 1]_vars

C17_Witness ==
  /\ lastMsg = "tick"
  /\ prevState = StatePaused
  /\ state = StatePaused
  /\ cmd = CmdNil
  /\ pending = 0
  /\ timer > 0

\* C18: a tick command is returned exactly by the transitions that end in
\* Brewing and either enter Brewing (start, resume by either trigger) or
\* handle a tick that leaves the timer above 0.
C18_WhenTickIsArmed ==
  [][(cmd' = CmdTick) <=>
        /\ state' = StateBrewing
        /\ \/ (state # StateBrewing /\ lastMsg' \in {"s", "KeySpace", "space"})
           \/ (state = StateBrewing /\ lastMsg' = "tick" /\ timer' > 0)]_vars

C18_Witness ==
  /\ lastMsg = "tick"
  /\ prevState = StateBrewing
  /\ state = StateBrewing
  /\ cmd = CmdTick
  /\ timer = Second
  /\ pending = 1

\* C19: if every armed tick is eventually delivered and no pause, reset or
\* quit key is pressed, a Brewing session eventually is Finished with the
\* timer at 0.
C19_BrewingLeadsToFinished ==
  (state = StateBrewing) ~> (state = StateFinished /\ timer = 0)

C19_Witness ==
  /\ lastMsg = "tick"
  /\ prevState = StateBrewing
  /\ state = StateFinished
  /\ timer = 0
  /\ pending = 0
  /\ alerts = 1
  /\ nticks > 0
  /\ nticks * Second >= brewFrom

\* C20: the completion command (notification and alert) is returned exactly
\* by the transitions from Brewing to Finished, and at most once between a
\* start that begins a brew and the next such start or reset.
C20_CompletionOnce ==
  /\ [](alerts <= 1)
  /\ [][(cmd' = CmdAlert) <=> (state = StateBrewing /\ state' = StateFinished)]_vars

C20_Witness ==
  /\ alerts = 1
  /\ state = StateFinished
  /\ lastMsg = "tick"
  /\ prevState = StateFinished
  /\ cmd = CmdNil
  /\ pending = 0

\* C21: on completion the audio alert is played only when
\* config.SoundEnabled is set, and the notification is sent only when
\* config.NotifyEnabled is set.
C21_AlertsGatedByConfig ==
  /\ (job \in {JobMP3, JobBeep}) => config.SoundEnabled
  /\ (job = JobNotify) => config.NotifyEnabled

\* C22: a key of type KeySpace and a key whose string is KeyPause give the
\* same model and the same command from every session: Paused and no command
\* from Brewing, Brewing and a tick from Paused, no change otherwise.
C22_PauseTriggersEquivalent ==
  LET a == Update(config, M, KeyMsg("KeySpace", " "))
      b == Update(config, M, KeyMsg("KeyRunes", KeyPause))
  IN /\ a = b
     /\ state = StateBrewing => b = Ret([M EXCEPT !.state = StatePaused], CmdNil)
     /\ state = StatePaused => b = Ret([M EXCEPT !.state = StateBrewing], CmdTick)
     /\ state \notin {StateBrewing, StatePaused} => b = Ret(M, CmdNil)

C22_Witness ==
  /\ lastMsg = "space"
  /\ prevState = StatePaused
  /\ state = StateBrewing
  /\ cmd = CmdTick
  /\ pending = 1
  /\ stale = 0

\* C23: 'q' and ctrl+c handled in any state leave state, timer and presetIdx
\* unchanged, return tea.Quit and arm no tick.
C23_Quit ==
  [][(lastMsg' \in {"q", "ctrl+c"}) =>
        /\ state' = state
        /\ timer' = timer
        /\ presetIdx' = presetIdx
        /\ width' = width
        /\ height' = height
        /\ cmd' = CmdQuit
        /\ pending' = pending
        /\ proc' = ProcQuit]_vars

C23_Witness ==
  /\ lastMsg = "ctrl+c"
  /\ prevState = StateBrewing
  /\ state = StateBrewing
  /\ cmd = CmdQuit
  /\ pending = 1
  /\ timer < (IF config.CustomDuration THEN config.BrewTime
              ELSE DefaultTeaPresets[presetIdx + 1].Duration)

\* C24: a resize handled in any state sets width and height to the
\* message's and changes neither state, timer nor presetIdx; it returns no
\* command, and the pending ticks stay as they are.
C24_Resize ==
  [][(lastMsg' = "resize") =>
        /\ <<width', height'>> \in Sizes
        /\ state' = state
        /\ timer' = timer
        /\ presetIdx' = presetIdx
        /\ cmd' = CmdNil
        /\ pending' = pending]_vars

C24_Witness ==
  /\ lastMsg = "resize"
  /\ prevState = StateBrewing
  /\ state = StateBrewing
  /\ <<width, height>> \in Sizes
  /\ pending = 1
  /\ cmd = CmdNil

\* C25: a key that matches no case, handled in any state, leaves the whole
\* model unchanged and returns no command.
C25_UnrecognizedKey ==
  [][(lastMsg' = "x") =>
        /\ state' = state
        /\ timer' = timer
        /\ presetIdx' = presetIdx
        /\ width' = width
        /\ height' = height
        /\ cmd' = CmdNil
        /\ pending' = pending]_vars

C25_Witness ==
  /\ lastMsg = "x"
  /\ prevState = StatePaused
  /\ state = StatePaused
  /\ cmd = CmdNil
  /\ pending = 1
  /\ timer > 0
  /\ timer < (IF config.CustomDuration THEN config.BrewTime
              ELSE DefaultTeaPresets[presetIdx + 1].Duration)

\* C26: when -duration is on the command line, the configuration main runs
\* the program with has CustomDuration set, and every reset and every start
\* of a brew sets the timer to the flag's value, whatever the preset.
C26_DurationFlagSetsCustom ==
  /\ []((proc = ProcRunning /\ args # NoFlag) => config.CustomDuration)
  /\ [][(/\ args # NoFlag
         /\ \/ lastMsg' = "r"
            \/ (lastMsg' = "s" /\ state # StateBrewing)) => timer' = args]_vars

\* C27: Validate returns an error exactly when BrewTime is below 30 seconds
\* or above 30 minutes; when it does, main ends in log.Fatalf with the model
\* never created and no message ever handled, and nothing happens after.
C27_ValidateBounds ==
  /\ [](proc # ProcMain =>
          ((Validate(config) # "ok") <=>
           (config.BrewTime < 30 * Second \/ config.BrewTime > 30 * Minute)))
  /\ []((Validate(config) # "ok" /\ proc \notin {ProcMain, ProcParsed}) =>
          /\ proc = ProcFatal
          /\ M = zeroModel
          /\ cmd = CmdNil
          /\ pending = 0)
  /\ []((proc = ProcRunning) => Validate(config) = "ok")
  /\ [][proc # ProcFatal]_vars

C27_Witness ==
  /\ proc = ProcFatal
  /\ lastMsg = "Fatalf"
  /\ config.BrewTime = MaxBrewTime + 1
  /\ M = zeroModel

\* C28: the exit code is 0 after a quit, and not 0 both after a failed
\* validation and after an error of p.Run().
C28_ExitCodes ==
  /\ proc = ProcQuit => ExitCode(proc) = 0
  /\ proc = ProcFatal => ExitCode(proc) > 0
  /\ proc = ProcRunErr => ExitCode(proc) > 0

\* C29: the calls of the completion goroutine, whether they fail or take
\* long, never touch the state machine: while one is under way the runtime
\* takes the next message; a step of the goroutine changes neither the model
\* nor the command nor the pending ticks (a Finished session stays Finished
\* at 0); reset and start do then what they always do; and no call is made
\* twice for one completion.
C29_SideEffectsContained ==
  /\ [](\A j \in DOMAIN calls : calls[j] <= 1)
  /\ []((job # JobNone /\ proc = ProcRunning) =>
          (ENABLED PressReset /\ ENABLED PressOther))
  /\ [][(lastMsg' = "job") =>
          /\ state' = state
          /\ timer' = timer
          /\ presetIdx' = presetIdx
          /\ width' = width
          /\ height' = height
          /\ cmd' = cmd
          /\ pending' = pending
          /\ stale' = stale
          /\ proc' = proc]_vars
  /\ [][(job # JobNone /\ lastMsg' = "r") =>
          /\ state' = StateIdle
          /\ timer' = StartDuration(config, M)
          /\ cmd' = CmdNil
          /\ job' = job]_vars
  /\ [][(job # JobNone /\ lastMsg' = "s" /\ state # StateBrewing) =>
          /\ state' = StateBrewing
          /\ timer' = StartDuration(config, M)
          /\ cmd' = CmdTick
          /\ job' = job]_vars

C29_Witness ==
  /\ lastMsg = "r"
  /\ prevState = StateFinished
  /\ state = StateIdle
  /\ job = JobBeep
  /\ calls[JobNotify] = 1
  /\ calls[JobMP3] = 1
  /\ calls[JobBeep] = 1

\* C31: in every reachable Brewing state at least one tick is pending,
\* whatever the order of keys and tick deliveries; a tick used up while
\* Paused does not leave the resumed session without one.
C31_BrewingHasPendingTick ==
  state = StateBrewing => pending >= 1

C31_Witness ==
  /\ lastMsg = "KeySpace"
  /\ prevState = StatePaused
  /\ state = StateBrewing
  /\ pending = 1
  /\ stale = 0
  /\ timer < StartDuration(config, M)

\* C32: in every reachable Brewing, Paused or Finished state the timer is
\* between 0 and the duration a start with the current presetIdx and
\* configuration counts down from.
C32_TimerWithinDuration ==
  state \in {StateBrewing, StatePaused, StateFinished} =>
     /\ 0 <= timer
     /\ timer <= (IF config.CustomDuration THEN config.BrewTime
                  ELSE DefaultTeaPresets[presetIdx + 1].Duration)

C32_Witness ==
  /\ state = StatePaused
  /\ lastMsg = "space"
  /\ ~config.CustomDuration
  /\ presetIdx = 5
  /\ timer = 3 * Minute - Second

\* C33: every step that starts and ends in Paused (a tick, an unrecognized
\* key, up, down, a resize) leaves the timer unchanged, and a resume by
\* either trigger goes to Brewing with the timer exactly as it was.
C33_PausedFrozen ==
  [][/\ (state = StatePaused /\ state' = StatePaused) => timer' = timer
     /\ (state = StatePaused /\ lastMsg' \in {"tick", "x", "up", "down", "resize"}) =>
           /\ state' = StatePaused
           /\ timer' = timer
     /\ (state = StatePaused /\ lastMsg' \in {"KeySpace", "space"}) =>
           /\ state' = StateBrewing
           /\ timer' = timer]_vars

C33_Witness ==
  /\ lastMsg = "resize"
  /\ prevState = StatePaused
  /\ state = StatePaused
  /\ pending = 1
  /\ timer = StartDuration(config, M) - Second

\* C35: in Idle, down then up, and up then down, restore presetIdx, and as
\* many downs as there are presets restore it too; the whole model (timer
\* included) is restored when CustomDuration is set or the timer was the
\* selected preset's duration.
C35_NavigationRoundTrip ==
  state = StateIdle =>
    LET down == KeyMsg("KeyDown", KeyDown)
        up == KeyMsg("KeyUp", KeyUp)
        du == Update(config, Update(config, M, down).m, up).m
        ud == Update(config, Update(config, M, up).m, down).m
        dN == DownTimes(config, M, Len(config.Presets))
        same == config.CustomDuration \/ timer = currentPreset(config, M).Duration
    IN /\ du.presetIdx = presetIdx
       /\ ud.presetIdx = presetIdx
       /\ dN.presetIdx = presetIdx
       /\ Update(config, M, down).m.presetIdx # presetIdx
       /\ Update(config, M, up).m.presetIdx # presetIdx
       /\ same => (du = M /\ ud = M /\ dN = M)

C35_Witness ==
  /\ lastMsg = "down"
  /\ prevState = StateIdle
  /\ state = StateIdle
  /\ presetIdx = 0
  /\ ~config.CustomDuration
  /\ config.BrewTime = MinBrewTime
  /\ timer = 4 * Minute

\* C34: in every reachable Brewing, Paused or Finished state, with or
\* without CustomDuration, the fraction View computes is between 0 and 1:
\* the bar has DefaultProgressBarWidth cells, between 0 and that many of
\* them filled, and the percentage printed is between 0 and 100.
C34_ProgressInRange ==
  state \in {StateBrewing, StatePaused, StateFinished} =>
    LET bar == ViewProgress(config, M)
        total == currentPreset(config, M).Duration
    IN /\ bar.shown
       /\ 0 <= bar.num
       /\ bar.num <= total
       /\ bar.cells = DefaultProgressBarWidth
       /\ 0 <= bar.filled
       /\ bar.filled <= DefaultProgressBarWidth
       /\ 0 <= bar.pct
       /\ bar.pct <= 100

\* C36: playSound tries its strategies in a fixed order and stops at the
\* first that succeeds: the MP3 first and once, a system command only after
\* the MP3 failed, the commands of the running system in their order
\* (Linux: paplay, aplay, beep, the terminal bell, the bell again), each
\* only after all before it failed, and nothing after a success.  When
\* every strategy failed the goroutine has logged the failures and ended;
\* a system without a beep command logs that and ends as well.
C36_AudioFallbackChain ==
  LET expected ==
        IF goos = "windows" THEN <<"mp3", "powershell">>
        ELSE IF goos = "darwin" THEN <<"mp3", "afplay">>
        ELSE IF goos = "linux"
             THEN <<"mp3", "paplay", "aplay", "beep", "echo", "echo">>
             ELSE <<"mp3">>
      n == Len(trace)
      allFailed == \A i \in 1..n : ~trace[i].ok
  IN /\ n <= Len(expected)
     /\ \A i \in 1..n : trace[i].cmd = expected[i]
     /\ \A i \in 1..(n - 1) : ~trace[i].ok
     /\ (n >= 1 /\ trace[n].ok) =>
          /\ job = JobNone
          /\ logs = IF n = 1 THEN <<>> ELSE <<"MP3 playback failed">>
     /\ job = JobMP3 => n = 0
     /\ job = JobBeep => (n >= 1 /\ (n < Len(expected) \/ Len(expected) = 1))
     /\ (n = Len(expected) /\ allFailed /\ n > 1) =>
          /\ job = JobNone
          /\ logs = <<"MP3 playback failed", "System beep failed",
                      "All audio methods failed">>
     /\ (n = 1 /\ allFailed /\ Len(expected) = 1 /\ job = JobNone) =>
          logs = <<"MP3 playback failed", "No system beep implementation">>
     /\ (job = JobNone /\ n = 0) => logs = <<>>

C36_Witness ==
  /\ goos = "linux"
  /\ job = JobNone
  /\ Len(trace) = 6
  /\ \A i \in 1..6 : ~trace[i].ok
  /\ logs[Len(logs)] = "All audio methods failed"
  /\ state = StateFinished
====
